---- MODULE Spec2Model ----
(***************************************************************************)
(* FilmElo (CineRank): the rating model (eloCalculator), pair generation   *)
(* and the voting arena (VotingArena + the pool owned by App), as a state  *)
(* machine.                                                                *)
(*                                                                         *)
(* Conventions.  Array indices are 0-based as in the source; TLA+          *)
(* sequences are 1-based, so movies[i] of the source is movies[i + 1].     *)
(* A nullable value (currentPair, voteResult) is a sequence of length 0    *)
(* (null) or more.  An absent posterPath is the empty string, which is     *)
(* falsy in the source as well.                                            *)
(***************************************************************************)
EXTENDS Integers, Sequences, FiniteSets, TLC

(***************************************************************************)
(* Bounds of the model.                                                    *)
(***************************************************************************)
\* Largest |winnerElo - loserElo| the rating-model harness draws.
MaxGap == 900
\* Largest pool the pair-generation harness draws.
MaxPairPool == 3
\* Largest pool loaded into the arena.
MaxPool == 2
\* Votes accepted in one run of the arena (the cap on Date.now()).
MaxVotes == 2
\* Movies of a loaded pool that have no poster yet (the first ones).
MaxPosterless == 1
\* Votes accepted in one run of the undo-stack specification.
StackVotes == 12
\* Largest pool handed to the simulation, and the rounds it runs.
MaxSimPool == 4
MaxRounds == 4
\* Movies in a leaderboard input, and records in each movie's history.
MaxBoard == 2
MaxLedger == 5
\* Backspace presses in the arena with a keyboard.
MaxKeys == 2
\* Matches voted before the statistics are read.
MaxMatches == 11
\* Calls of fetchMoviePoster.
MaxRequests == 4

(***************************************************************************)
(* Program constants.                                                      *)
(***************************************************************************)
INITIAL_ELO == 1200
K_PLACEMENT == 80
K_CALIBRATION == 40
K_ESTABLISHED == 20
\* getKFactor's two steps.
PlacementMatches == 5
CalibrationMatches == 15
\* The logistic curve's scale: 10^((Rb - Ra) / 400).
EloScale == 400
\* generatePair: candidates sampled, closest candidates kept, redraw limit.
CandidateAttempts == 20
ClosestKept == 3
SafetyLimit == 100
\* VotingArena: lookahead depth; snapshots kept by prev.slice(-10).
QUEUE_SIZE == 5
UndoDepth == 10

Min(a, b) == IF a < b THEN a ELSE b
Abs(a) == IF a < 0 THEN 0 - a ELSE a

(***************************************************************************)
(* eloCalculator: getKFactor.                                              *)
(***************************************************************************)
getKFactorOffByOne(matches) ==
    IF matches <= PlacementMatches THEN K_PLACEMENT
    ELSE IF matches <= CalibrationMatches THEN K_CALIBRATION
    ELSE K_ESTABLISHED

getKFactor(matches) ==
    IF matches < PlacementMatches THEN K_PLACEMENT
    ELSE IF matches < CalibrationMatches THEN K_CALIBRATION
    ELSE K_ESTABLISHED

(***************************************************************************)
(* eloCalculator: getExpectedScore, in fixed point.                        *)
(*                                                                         *)
(* The source computes E = 1 / (1 + 10^((ratingB - ratingA) / 400)) in     *)
(* floating point.  Ratings are integers (INITIAL_ELO, or                  *)
(* 1200 + (stars - 3) * 200 with half stars, and every update is rounded), *)
(* so E is a step function of the integer x = ratingB - ratingA once it is *)
(* read at a resolution of 1/160: LogisticSteps[k] is the largest x >= 0   *)
(* with 160 / (1 + 10^(x / 400)) >= k, i.e. floor(400 * log10(160/k - 1)). *)
(* For x < 0, E(x) = 1 - E(-x), and 160 * E(-x) is an integer only at      *)
(* x = 0, so floor(160 * E(x)) = 159 - floor(160 * E(-x)).                 *)
(* getExpectedScore160(a, b) is floor(160 * E) exactly.                    *)
(***************************************************************************)
ScoreUnits == 160

LogisticSteps ==
    << 880, 759, 687, 636, 596, 563, 535, 511, 489, 470,
       452, 436, 421, 407, 394, 381, 369, 358, 348, 338,
       328, 318, 309, 301, 292, 284, 276, 269, 261, 254,
       247, 240, 234, 227, 221, 214, 208, 202, 196, 190,
       185, 179, 173, 168, 162, 157, 152, 147, 142, 136,
       131, 126, 122, 117, 112, 107, 102,  98,  93,  88,
        84,  79,  74,  70,  65,  61,  56,  52,  48,  43,
        39,  34,  30,  26,  21,  17,  13,   8,   4,   0 >>

StepsAtOrAbove(x) == Cardinality({k \in 1..Len(LogisticSteps) : x <= LogisticSteps[k]})

getExpectedScore160(ratingA, ratingB) ==
    LET x == ratingB - ratingA
    IN  IF x >= 0 THEN StepsAtOrAbove(x)
        ELSE (ScoreUnits - 1) - StepsAtOrAbove(0 - x)

(***************************************************************************)
(* Math.round(rating + K * share) - rating for an integer rating, where    *)
(* share is a probability given as floor(160 * p).  K divides 160 and      *)
(* 80 / K is an integer, so floor(K * p + 1/2) =                           *)
(* floor((floor(160 p) * K + 80) / 160); K * p is never a half-integer for *)
(* an integer rating difference other than 0, where it is the integer K/2. *)
(***************************************************************************)
RoundedGainFloor(K, share160) == (share160 * K) \div ScoreUnits

RoundedGain(K, share160) == (share160 * K + (ScoreUnits \div 2)) \div ScoreUnits

(***************************************************************************)
(* eloCalculator: calculateNewRatings.  1 - expectedWinner is the loser's  *)
(* expected score getExpectedScore(loserElo, winnerElo); the winner gains  *)
(* round(winnerK * (1 - expectedWinner)), the loser loses                  *)
(* round(loserK * expectedLoser).                                          *)
(***************************************************************************)
calculateNewRatingsSharedK(winnerElo, winnerMatches, loserElo, loserMatches) ==
    LET expectedLoser == getExpectedScore160(loserElo, winnerElo)
        winnerK == getKFactor(winnerMatches)
    IN  << winnerElo + RoundedGain(winnerK, expectedLoser),
           loserElo - RoundedGain(winnerK, expectedLoser) >>

calculateNewRatings(winnerElo, winnerMatches, loserElo, loserMatches) ==
    LET expectedLoser == getExpectedScore160(loserElo, winnerElo)
        winnerK == getKFactor(winnerMatches)
        loserK == getKFactor(loserMatches)
    IN  << winnerElo + RoundedGain(winnerK, expectedLoser),
           loserElo - RoundedGain(loserK, expectedLoser) >>

(***************************************************************************)
(* VotingArena: generatePair.  Math.random is an input: the operator       *)
(* yields the set of pairs the function can return over all values of its  *)
(* draws.  Of currentMovies it reads the length and each movie's elo.      *)
(***************************************************************************)
\* The fallback loop: while (idx1 === idx2 && safety < 100) redraw idx2.
\* When it is entered it stops either after a redraw that differs from idx1,
\* or after the SafetyLimit-th redraw, every redraw having returned idx1.
RedrawResults(n, idx1, idx2) ==
    IF idx1 = idx2 /\ 0 < SafetyLimit
    THEN LET stoppedByDifference == { last \in 0..(n - 1) : last # idx1 }
             stoppedBySafety == { idx1 }
         IN  stoppedByDifference \cup stoppedBySafety
    ELSE {idx2}

\* The candidates pushed for one sequence of draws: those other than idx1,
\* in drawing order.
Candidates(draws, idx1) == SelectSeq(draws, LAMBDA r : r # idx1)

\* candidates.sort((a, b) => a.diff - b.diff).slice(0, 3): the sort is
\* stable, so a candidate is kept when fewer than 3 candidates precede it.
ClosestCandidates(currentMovies, idx1, candidates) ==
    LET targetElo == currentMovies[idx1 + 1].elo
        diff(p) == Abs(currentMovies[candidates[p] + 1].elo - targetElo)
        before(p) == {q \in 1..Len(candidates) :
                         \/ diff(q) < diff(p)
                         \/ diff(q) = diff(p) /\ q < p}
    IN  {candidates[p] : p \in {q \in 1..Len(candidates) :
                                   Cardinality(before(q)) < ClosestKept}}

\* The values idx2 can hold when the fallback loop is reached.
SecondIndexChoices(currentMovies, idx1) ==
    LET n == Len(currentMovies)
        attempts == Min(n - 1, CandidateAttempts)
        smart == UNION { LET candidates == Candidates(draws, idx1)
                         IN  IF Len(candidates) > 0
                             THEN ClosestCandidates(currentMovies, idx1, candidates)
                             ELSE 0..(n - 1)
                         : draws \in [1..attempts -> 0..(n - 1)] }
    IN  (0..(n - 1)) \cup smart

generatePair(currentMovies) ==
    LET n == Len(currentMovies)
    IN  IF n < 2 THEN {<< 0, 0 >>}
        ELSE UNION { { << idx1, idx2 >> :
                         idx2 \in UNION { RedrawResults(n, idx1, first) :
                                            first \in SecondIndexChoices(currentMovies, idx1) } }
                     : idx1 \in 0..(n - 1) }

(***************************************************************************)
(* eloCalculator: updateMovieStats.  timestamp is Date.now().              *)
(***************************************************************************)
updateMovieStatsNoLoserRecord(winner, loser, timestamp) ==
    LET new == calculateNewRatings(winner.elo, winner.matches, loser.elo, loser.matches)
        winnerRecord == [ timestamp |-> timestamp, opponentId |-> loser.id,
                          result |-> "WIN", eloChange |-> new[1] - winner.elo,
                          newElo |-> new[1], opponentElo |-> loser.elo ]
    IN  [ winner |-> [winner EXCEPT !.elo = new[1], !.matches = @ + 1, !.wins = @ + 1,
                                    !.history = Append(@, winnerRecord)],
          loser |-> [loser EXCEPT !.elo = new[2], !.matches = @ + 1, !.losses = @ + 1] ]

updateMovieStatsNewestFirst(winner, loser, timestamp) ==
    LET new == calculateNewRatings(winner.elo, winner.matches, loser.elo, loser.matches)
        winnerRecord == [ timestamp |-> timestamp, opponentId |-> loser.id,
                          result |-> "WIN", eloChange |-> new[1] - winner.elo,
                          newElo |-> new[1], opponentElo |-> loser.elo ]
        loserRecord == [ timestamp |-> timestamp, opponentId |-> winner.id,
                         result |-> "LOSS", eloChange |-> new[2] - loser.elo,
                         newElo |-> new[2], opponentElo |-> winner.elo ]
    IN  [ winner |-> [winner EXCEPT !.elo = new[1], !.matches = @ + 1, !.wins = @ + 1,
                                    !.history = << winnerRecord >> \o @],
          loser |-> [loser EXCEPT !.elo = new[2], !.matches = @ + 1, !.losses = @ + 1,
                                  !.history = << loserRecord >> \o @] ]

updateMovieStatsLoserRecordSlip(winner, loser, timestamp) ==
    LET new == calculateNewRatings(winner.elo, winner.matches, loser.elo, loser.matches)
        winnerRecord == [ timestamp |-> timestamp, opponentId |-> loser.id,
                          result |-> "WIN", eloChange |-> new[1] - winner.elo,
                          newElo |-> new[1], opponentElo |-> loser.elo ]
        loserRecord == [ timestamp |-> timestamp, opponentId |-> winner.id,
                         result |-> "LOSS", eloChange |-> new[2] - loser.elo,
                         newElo |-> new[1], opponentElo |-> winner.elo ]
    IN  [ winner |-> [winner EXCEPT !.elo = new[1], !.matches = @ + 1, !.wins = @ + 1,
                                    !.history = Append(@, winnerRecord)],
          loser |-> [loser EXCEPT !.elo = new[2], !.matches = @ + 1, !.losses = @ + 1,
                                  !.history = Append(@, loserRecord)] ]

updateMovieStatsWinnerSeesNewElo(winner, loser, timestamp) ==
    LET new == calculateNewRatings(winner.elo, winner.matches, loser.elo, loser.matches)
        winnerRecord == [ timestamp |-> timestamp, opponentId |-> loser.id,
                          result |-> "WIN", eloChange |-> new[1] - winner.elo,
                          newElo |-> new[1], opponentElo |-> new[2] ]
        loserRecord == [ timestamp |-> timestamp, opponentId |-> winner.id,
                         result |-> "LOSS", eloChange |-> new[2] - loser.elo,
                         newElo |-> new[2], opponentElo |-> winner.elo ]
    IN  [ winner |-> [winner EXCEPT !.elo = new[1], !.matches = @ + 1, !.wins = @ + 1,
                                    !.history = Append(@, winnerRecord)],
          loser |-> [loser EXCEPT !.elo = new[2], !.matches = @ + 1, !.losses = @ + 1,
                                  !.history = Append(@, loserRecord)] ]

updateMovieStatsLoserUncounted(winner, loser, timestamp) ==
    LET new == calculateNewRatings(winner.elo, winner.matches, loser.elo, loser.matches)
        newWinnerElo == new[1]
        newLoserElo == new[2]
        winnerDiff == newWinnerElo - winner.elo
        loserDiff == newLoserElo - loser.elo
        winnerRecord == [ timestamp |-> timestamp, opponentId |-> loser.id,
                          result |-> "WIN", eloChange |-> winnerDiff,
                          newElo |-> newWinnerElo, opponentElo |-> loser.elo ]
        loserRecord == [ timestamp |-> timestamp, opponentId |-> winner.id,
                         result |-> "LOSS", eloChange |-> loserDiff,
                         newElo |-> newLoserElo, opponentElo |-> winner.elo ]
    IN  [ winner |-> [winner EXCEPT !.elo = newWinnerElo, !.matches = @ + 1,
                                    !.wins = @ + 1,
                                    !.history = Append(@, winnerRecord)],
          loser |-> [loser EXCEPT !.elo = newLoserElo,
                                  !.losses = @ + 1,
                                  !.history = Append(@, loserRecord)] ]

updateMovieStats(winner, loser, timestamp) ==
    LET new == calculateNewRatings(winner.elo, winner.matches, loser.elo, loser.matches)
        newWinnerElo == new[1]
        newLoserElo == new[2]
        winnerDiff == newWinnerElo - winner.elo
        loserDiff == newLoserElo - loser.elo
        winnerRecord == [ timestamp |-> timestamp, opponentId |-> loser.id,
                          result |-> "WIN", eloChange |-> winnerDiff,
                          newElo |-> newWinnerElo, opponentElo |-> loser.elo ]
        loserRecord == [ timestamp |-> timestamp, opponentId |-> winner.id,
                         result |-> "LOSS", eloChange |-> loserDiff,
                         newElo |-> newLoserElo, opponentElo |-> winner.elo ]
    IN  [ winner |-> [winner EXCEPT !.elo = newWinnerElo, !.matches = @ + 1,
                                    !.wins = @ + 1,
                                    !.history = Append(@, winnerRecord)],
          loser |-> [loser EXCEPT !.elo = newLoserElo, !.matches = @ + 1,
                                  !.losses = @ + 1,
                                  !.history = Append(@, loserRecord)] ]

(***************************************************************************)
(* simulationService: runSimulationRound.  The operator yields, for every  *)
(* value of the random draws, the array returned and the argument array as *)
(* the call leaves it.                                                     *)
(***************************************************************************)
\* Math.random() * 10 - 5 lies in [-SortJitter, SortJitter).
SortJitter == 5

\* The comparator (a, b) => (b.elo - a.elo) + (Math.random() * 10 - 5) can
\* put a before b: it can return a negative number, or 0 with a before b
\* in the input (the sort is stable).
MayPrecede(a, b, aFirstInInput) ==
    \/ b.elo - a.elo < SortJitter
    \/ b.elo - a.elo = SortJitter /\ aFirstInInput

\* movies.sort(...) with that comparator: the orders in which every two
\* neighbours stand as the comparator can put them.
SortOutcomes(ms) ==
    LET n == Len(ms)
        orders == { p \in [1..n -> 1..n] :
                      /\ \A i, j \in 1..n : p[i] = p[j] => i = j
                      /\ \A j \in 1..(n - 1) :
                            MayPrecede(ms[p[j]], ms[p[j + 1]], p[j] < p[j + 1]) }
    IN  { [j \in 1..n |-> ms[p[j]]] : p \in orders }

\* nextMoviesMap.set(m.id, m): the key exists, so it keeps its place.
MapSetAddsEntry(values, m) == Append(values, m)

MapSet(values, m) ==
    [k \in 1..Len(values) |-> IF values[k].id = m.id THEN m ELSE values[k]]

\* The loop for (let i = 0; i < movies.length - 1; i++) from index i on,
\* with the set paired and the map's values: the values it can end with.
\* Math.random() < probM1Wins can fall either way.
RECURSIVE PairNeighboursAgain(_, _, _, _)
PairNeighboursAgain(sorted, i, paired, values) ==
    IF i >= Len(sorted) - 1 THEN { values }
    ELSE LET m1 == values[i + 1]
             m2 == values[i + 2]
         IN  UNION {
                LET winner == IF m1IsWinner THEN m1 ELSE m2
                    loser == IF m1IsWinner THEN m2 ELSE m1
                    new == calculateNewRatings(winner.elo, winner.matches,
                                               loser.elo, loser.matches)
                    updatedWinner == [winner EXCEPT !.elo = new[1],
                                                    !.matches = @ + 1,
                                                    !.wins = @ + 1]
                    updatedLoser == [loser EXCEPT !.elo = new[2],
                                                  !.matches = @ + 1,
                                                  !.losses = @ + 1]
                IN  PairNeighboursAgain(sorted, i + 1, paired \cup {m1.id, m2.id},
                                        MapSet(MapSet(values, updatedWinner), updatedLoser))
                : m1IsWinner \in BOOLEAN }

RECURSIVE PairNeighbours(_, _, _, _)
PairNeighbours(sorted, i, paired, values) ==
    IF i >= Len(sorted) - 1 THEN { values }
    ELSE LET m1 == sorted[i + 1]
             m2 == sorted[i + 2]
         IN  IF m1.id \in paired \/ m2.id \in paired
             THEN PairNeighbours(sorted, i + 1, paired, values)
             ELSE UNION {
                    LET winner == IF m1IsWinner THEN m1 ELSE m2
                        loser == IF m1IsWinner THEN m2 ELSE m1
                        new == calculateNewRatings(winner.elo, winner.matches,
                                                   loser.elo, loser.matches)
                        updatedWinner == [winner EXCEPT !.elo = new[1],
                                                        !.matches = @ + 1,
                                                        !.wins = @ + 1]
                        updatedLoser == [loser EXCEPT !.elo = new[2],
                                                      !.matches = @ + 1,
                                                      !.losses = @ + 1]
                    IN  PairNeighbours(sorted, i + 1, paired \cup {m1.id, m2.id},
                                       MapSet(MapSet(values, updatedWinner), updatedLoser))
                    : m1IsWinner \in BOOLEAN }

runSimulationRoundSortsArgument(currentMovies) ==
    UNION { { [ argument |-> sorted, result |-> values ] :
                values \in PairNeighbours(sorted, 0, {}, sorted) }
            : sorted \in SortOutcomes(currentMovies) }

runSimulationRound(currentMovies) ==
    LET copy == [k \in 1..Len(currentMovies) |->
                    [currentMovies[k] EXCEPT !.history = currentMovies[k].history]]
    IN  UNION { { [ argument |-> currentMovies, result |-> values ] :
                    values \in PairNeighbours(sorted, 0, {}, sorted) }
                : sorted \in SortOutcomes(copy) }

(***************************************************************************)
(* Leaderboard: the insights' longest streak.  Of a movie it reads the id  *)
(* and the history, of a record the timestamp and the result.              *)
(***************************************************************************)
\* [...m.history].sort((a, b) => a.timestamp - b.timestamp): a stable sort.
SortByTimestamp(h) ==
    LET Rank(i) == Cardinality({ j \in 1..Len(h) :
                       \/ h[j].timestamp < h[i].timestamp
                       \/ h[j].timestamp = h[i].timestamp /\ j < i }) + 1
    IN  [r \in 1..Len(h) |-> h[CHOOSE i \in 1..Len(h) : Rank(i) = r]]

\* sortedHistory.forEach from the k-th match on: maxLocalStreak at the end.
RECURSIVE ScanStreakNoReset(_, _, _, _)
ScanStreakNoReset(sortedHistory, k, currentStreak, maxLocalStreak) ==
    IF k > Len(sortedHistory) THEN maxLocalStreak
    ELSE IF sortedHistory[k].result = "WIN"
         THEN ScanStreakNoReset(sortedHistory, k + 1, currentStreak + 1,
                                IF maxLocalStreak > currentStreak + 1
                                THEN maxLocalStreak ELSE currentStreak + 1)
         ELSE ScanStreakNoReset(sortedHistory, k + 1, currentStreak, maxLocalStreak)

RECURSIVE ScanStreak(_, _, _, _)
ScanStreak(sortedHistory, k, currentStreak, maxLocalStreak) ==
    IF k > Len(sortedHistory) THEN maxLocalStreak
    ELSE IF sortedHistory[k].result = "WIN"
         THEN ScanStreak(sortedHistory, k + 1, currentStreak + 1,
                         IF maxLocalStreak > currentStreak + 1
                         THEN maxLocalStreak ELSE currentStreak + 1)
         ELSE ScanStreak(sortedHistory, k + 1, 0, maxLocalStreak)

\* movies.forEach from the k-th movie on: longestStreak at the end; its
\* movie is << >> (null) or << id >>.
RECURSIVE ScanMovies(_, _, _)
ScanMovies(ms, k, longestStreak) ==
    IF k > Len(ms) THEN longestStreak
    ELSE LET maxLocalStreak == ScanStreak(SortByTimestamp(ms[k].history), 1, 0, 0)
         IN  ScanMovies(ms, k + 1,
                        IF maxLocalStreak > longestStreak.streak
                        THEN [ movie |-> << ms[k].id >>, streak |-> maxLocalStreak ]
                        ELSE longestStreak)

insightsLongestStreak(ms) == ScanMovies(ms, 1, [ movie |-> << >>, streak |-> 0 ])

\* if (m.matches > 5)
PolarizingMatches == 5

\* reduce((a, b) => a + b, 0)
RECURSIVE SumOf(_)
SumOf(numbers) ==
    IF numbers = << >> THEN 0 ELSE Head(numbers) + SumOf(Tail(numbers))

\* sortedHistory.forEach from the i-th match on, for the movie named
\* movieName: biggestUpset at the end.  Every record written by
\* updateMovieStats carries opponentElo; names are the movies' ids.
RECURSIVE ScanUpsetsAnyResult(_, _, _, _)
ScanUpsetsAnyResult(sortedHistory, i, movieName, biggestUpset) ==
    IF i > Len(sortedHistory) THEN biggestUpset
    ELSE LET match == sortedHistory[i]
             oppElo == match.opponentElo
             myEloBefore == match.newElo - match.eloChange
             diff == oppElo - myEloBefore
         IN  ScanUpsetsAnyResult(sortedHistory, i + 1, movieName,
                IF oppElo > myEloBefore /\ diff > biggestUpset.diff
                THEN [ movieName |-> movieName, oppName |-> match.opponentId,
                       diff |-> diff, date |-> match.timestamp ]
                ELSE biggestUpset)

RECURSIVE ScanUpsets(_, _, _, _)
ScanUpsets(sortedHistory, i, movieName, biggestUpset) ==
    IF i > Len(sortedHistory) THEN biggestUpset
    ELSE LET match == sortedHistory[i]
             oppElo == match.opponentElo
             myEloBefore == match.newElo - match.eloChange
             diff == oppElo - myEloBefore
         IN  ScanUpsets(sortedHistory, i + 1, movieName,
                IF match.result = "WIN" /\ oppElo > myEloBefore
                   /\ diff > biggestUpset.diff
                THEN [ movieName |-> movieName, oppName |-> match.opponentId,
                       diff |-> diff, date |-> match.timestamp ]
                ELSE biggestUpset)

RECURSIVE ScanMoviesForUpset(_, _, _)
ScanMoviesForUpset(ms, k, biggestUpset) ==
    IF k > Len(ms) THEN biggestUpset
    ELSE ScanMoviesForUpset(ms, k + 1,
            ScanUpsets(SortByTimestamp(ms[k].history), 1, ms[k].id, biggestUpset))

insightsBiggestUpset(ms) ==
    ScanMoviesForUpset(ms, 1, [ movieName |-> "", oppName |-> "", diff |-> 0, date |-> 0 ])

\* movies.forEach from the k-th movie on: mostPolarizing at the end.  The
\* volatility avgChange is kept as the fraction sum / count; with no record
\* it is NaN, and NaN > volatility is false.
RECURSIVE ScanMoviesForPolarizing(_, _, _)
ScanMoviesForPolarizing(ms, k, mostPolarizing) ==
    IF k > Len(ms) THEN mostPolarizing
    ELSE LET m == ms[k]
             changes == [i \in 1..Len(m.history) |-> Abs(m.history[i].eloChange)]
         IN  ScanMoviesForPolarizing(ms, k + 1,
                IF /\ m.matches > PolarizingMatches
                   /\ Len(changes) > 0
                   /\ SumOf(changes) * mostPolarizing.count
                        > mostPolarizing.sum * Len(changes)
                THEN [ movie |-> << m.id >>, sum |-> SumOf(changes),
                       count |-> Len(changes) ]
                ELSE mostPolarizing)

insightsMostPolarizing(ms) ==
    ScanMoviesForPolarizing(ms, 1, [ movie |-> << >>, sum |-> 0, count |-> 1 ])

insights(ms) ==
    [ biggestUpset |-> insightsBiggestUpset(ms),
      longestStreak |-> insightsLongestStreak(ms),
      mostPolarizing |-> insightsMostPolarizing(ms) ]

(***************************************************************************)
(* JavaScript array helpers.                                               *)
(***************************************************************************)
\* A hole of a sparse array (an index never assigned).
Hole == [ id |-> "hole" ]

\* arr[index] = value on a copy: an index past the end leaves holes.
ArraySetPushes(arr, index, value) == Append(arr, value)

ArraySet(arr, index, value) ==
    IF index < Len(arr) THEN [arr EXCEPT ![index + 1] = value]
    ELSE arr \o [k \in 1..(index - Len(arr)) |-> Hole] \o << value >>

\* arr.slice(-count)
SliceLast(arr, count) ==
    IF Len(arr) <= count THEN arr
    ELSE SubSeq(arr, Len(arr) - count + 1, Len(arr))

\* arr.slice(1)
SliceFrom1(arr) == IF arr = << >> THEN << >> ELSE Tail(arr)

\* arr.slice(0, -1)
SliceDropLast(arr) == IF arr = << >> THEN << >> ELSE SubSeq(arr, 1, Len(arr) - 1)

(***************************************************************************)
(* MovieDetailModal: the graph points and the statistics of one movie.     *)
(***************************************************************************)
\* history.slice(-10)
RecentMatches == 10
\* avgChange / 32
VolatilityBase == 32
\* diff < 50
CloseGap == 50
\* oppElo > myEloBefore + 80
UpsetMargin == 80
\* movie.matches / 20
ConfidenceMatches == 20
\* Math.min(..., 100)
ScoreCap == 100

\* Math.round(num / den * 100) for num >= 0 and den > 0.
RoundPercent(num, den) == (200 * num + den) \div (2 * den)

\* graphPoints.map(p => p.elo): the first point is INITIAL_ELO.
graphPoints(movie) ==
    IF Len(movie.history) > 0
    THEN LET sortedHistory == SortByTimestamp(movie.history)
         IN  << INITIAL_ELO >> \o [i \in 1..Len(sortedHistory) |-> sortedHistory[i].newElo]
    ELSE IF movie.matches > 0
    THEN << INITIAL_ELO, movie.elo >>
    ELSE << INITIAL_ELO >>

\* recentChanges, avgChange and volatilityScore.  recentChanges.length || 1
\* divides an empty sum by 1.
volatilityScoreUncapped(history) ==
    LET recent == SliceLast(history, RecentMatches)
        recentChanges == [i \in 1..Len(recent) |-> Abs(recent[i].eloChange)]
        count == IF Len(recentChanges) = 0 THEN 1 ELSE Len(recentChanges)
    IN  RoundPercent(SumOf(recentChanges), VolatilityBase * count)

volatilityScore(history) ==
    LET recent == SliceLast(history, RecentMatches)
        recentChanges == [i \in 1..Len(recent) |-> Abs(recent[i].eloChange)]
        count == IF Len(recentChanges) = 0 THEN 1 ELSE Len(recentChanges)
    IN  Min(RoundPercent(SumOf(recentChanges), VolatilityBase * count), ScoreCap)

\* The records of history.forEach that count as close, and as upset wins.
\* Every record written by updateMovieStats carries opponentElo.
CloseRecords(history) ==
    { i \in 1..Len(history) :
        Abs((history[i].newElo - history[i].eloChange) - history[i].opponentElo)
            < CloseGap }

UpsetRecords(history) ==
    { i \in 1..Len(history) :
        /\ history[i].result = "WIN"
        /\ history[i].opponentElo
             > (history[i].newElo - history[i].eloChange) + UpsetMargin }

stats(movie) ==
    LET history == movie.history
        elos == graphPoints(movie)
        closeMatches == Cardinality(CloseRecords(history))
        closeWins == Cardinality({ i \in CloseRecords(history) :
                                     history[i].result = "WIN" })
    IN  [ peakElo |-> CHOOSE x \in { elos[i] : i \in 1..Len(elos) } :
                         \A i \in 1..Len(elos) : elos[i] <= x,
          lowestElo |-> CHOOSE x \in { elos[i] : i \in 1..Len(elos) } :
                           \A i \in 1..Len(elos) : elos[i] >= x,
          volatilityScore |-> volatilityScore(history),
          clutchFactor |-> IF closeMatches > 0
                           THEN RoundPercent(closeWins, closeMatches)
                           ELSE 0,
          upsetWins |-> Cardinality(UpsetRecords(history)),
          confidence |-> Min(RoundPercent(movie.matches, ConfidenceMatches), ScoreCap),
          closeMatches |-> closeMatches ]

(***************************************************************************)
(* VotingArena: the lookahead queue.                                       *)
(*                                                                         *)
(* A queued pair is the value generatePair returned for the pool of the    *)
(* render that queued it.  The model keeps, for each queued pair, the part *)
(* of that pool generatePair reads (each movie's elo), and fixes the       *)
(* pair's two indices when the pair is taken from the queue: until then    *)
(* only the poster pre-loading reads them.                                 *)
(***************************************************************************)
EloView(ms) == [k \in 1..Len(ms) |-> [elo |-> ms[k].elo]]

QueuedPair(ms) == [ generatedFrom |-> EloView(ms) ]

PairValues(queued) == generatePair(queued.generatedFrom)

\* The guards of the two queue effects: movies.length < 2 returns, and
\* movies.length >= 2 is required by the fallback.
HasEnoughMovies(ms) == Len(ms) >= 2

\* Effect "Maintain Queue Depth" (deps: movies): fill the queue to QUEUE_SIZE.
MaintainQueue(prevQueue, ms) ==
    IF ~HasEnoughMovies(ms) THEN prevQueue
    ELSE IF Len(prevQueue) >= QUEUE_SIZE THEN prevQueue
    ELSE prevQueue \o [k \in 1..(QUEUE_SIZE - Len(prevQueue)) |-> QueuedPair(ms)]

\* One pass of the effects after a render with the values (pair, queue, ms):
\* the pairs "Initialize First Pair" can leave, and the queue.  The queue
\* effect runs when movies changed; "Initialize First Pair" reads the
\* rendered queue and updates the queue functionally, and does nothing when
\* a pair is set.  A second pass changes nothing: the first leaves a pair
\* whenever the pool has 2 movies.
EffectsPass(pair, queue, ms, moviesChanged) ==
    LET maintained == IF moviesChanged THEN MaintainQueue(queue, ms) ELSE queue
    IN  IF pair = << >> /\ Len(queue) > 0
        THEN [ pairs |-> PairValues(queue[1]), queue |-> SliceFrom1(maintained) ]
        ELSE IF pair = << >> /\ HasEnoughMovies(ms)
        THEN [ pairs |-> generatePair(EloView(ms)), queue |-> maintained ]
        ELSE [ pairs |-> {pair}, queue |-> maintained ]

\* advanceQueue, called from a closure that rendered (closureQueue,
\* closureMovies), on the queue as it is now: the pairs it can set, and the
\* queue it leaves.
advanceQueue(closureQueue, closureMovies, queueNow) ==
    IF Len(closureQueue) > 0
    THEN [ pairs |-> PairValues(closureQueue[1]), queue |-> SliceFrom1(queueNow) ]
    ELSE [ pairs |-> generatePair(EloView(closureMovies)), queue |-> queueNow ]

(***************************************************************************)
(* VotingArena: the undo stack and the poster merge.                       *)
(***************************************************************************)
\* setHistory(prev => [...prev.slice(-10), [...movies]])
SaveHistoryInFront(prev, ms) == << ms >> \o SliceLast(prev, UndoDepth)

SaveHistory(prev, ms) == Append(SliceLast(prev, UndoDepth), ms)

\* history[history.length - 1]
PreviousStateOldest(h) == h[1]

PreviousState(h) == h[Len(h)]

\* The index of the first movie with this id, or -1.
FindIndex(ms, id) ==
    IF \E k \in 1..Len(ms) : ms[k].id = id
    THEN (CHOOSE k \in 1..Len(ms) :
             ms[k].id = id /\ \A j \in 1..(k - 1) : ms[j].id # id) - 1
    ELSE -1

\* The functional update of a completed poster fetch; movie is the movie the
\* effect's closure captured when it started the fetch.
MergePosterFromClosure(prevMovies, movie, path) ==
    LET targetIndex == FindIndex(prevMovies, movie.id)
    IN  IF targetIndex # -1
        THEN ArraySet(prevMovies, targetIndex, [movie EXCEPT !.posterPath = path])
        ELSE prevMovies

MergePoster(prevMovies, movie, path) ==
    LET targetIndex == FindIndex(prevMovies, movie.id)
    IN  IF targetIndex # -1
        THEN ArraySet(prevMovies, targetIndex,
                      [prevMovies[targetIndex + 1] EXCEPT !.posterPath = path])
        ELSE prevMovies

\* if (voteResult) return, in handleVote.
VoteBlockedNever(result) == FALSE

VoteBlocked(result) == result # << >>

\* disabled={!!voteResult} on the Undo and Skip buttons, and the keyboard
\* handler's if (!currentPair || voteResult) return.
ControlsDisabled(result) == result # << >>

(***************************************************************************)
(* tmdbService: the request queue.  The service's state q holds            *)
(* requestQueue (the requests' numbers, given in enqueue order),           *)
(* isProcessingQueue, the calls of processQueue that are suspended at an   *)
(* await (loops: at "task" for await task(), at "delay" for the 300 ms     *)
(* timer), the requests that are executing, the order in which requests    *)
(* started, and each request's promise: "pending", "resolved", "rejected". *)
(***************************************************************************)
\* if (isProcessingQueue) return
ProcessorBusyNever(isProcessingQueue) == FALSE

ProcessorBusy(isProcessingQueue) == isProcessingQueue

\* The while loop from its condition to the next await, or to its end.
RunLoop(q) ==
    IF Len(q.requestQueue) > 0
    THEN LET task == Head(q.requestQueue)
         IN  [q EXCEPT !.requestQueue = Tail(@),
                       !.loops = @ \cup { [ pc |-> "task", task |-> task ] },
                       !.executing = @ \cup { task },
                       !.started = Append(@, task)]
    ELSE [q EXCEPT !.isProcessingQueue = FALSE]

processQueue(q) ==
    IF ProcessorBusy(q.isProcessingQueue) THEN q
    ELSE RunLoop([q EXCEPT !.isProcessingQueue = TRUE])

\* enqueueRequest: push the wrapped request, call processQueue.
enqueueRequest(q) ==
    processQueue([q EXCEPT !.requestQueue = Append(@, Len(q.settled) + 1),
                           !.settled = Append(@, "pending")])

\* The wrapped request settles: it resolves or rejects the request's promise
\* and itself always resolves, so await task() returns and the loop goes on
\* to the timer.
taskSettlesUncaught(q, loop, ok) ==
    [q EXCEPT !.settled[loop.task] = IF ok THEN "resolved" ELSE "rejected",
              !.executing = @ \ { loop.task },
              !.loops = IF ok
                        THEN (@ \ { loop }) \cup { [ pc |-> "delay", task |-> loop.task ] }
                        ELSE @ \ { loop }]

taskSettles(q, loop, ok) ==
    [q EXCEPT !.settled[loop.task] = IF ok THEN "resolved" ELSE "rejected",
              !.executing = @ \ { loop.task },
              !.loops = (@ \ { loop }) \cup { [ pc |-> "delay", task |-> loop.task ] }]

(***************************************************************************)
(* State.                                                                  *)
(***************************************************************************)
VARIABLES
    movies,        \* App: the pool (useState<Movie[]>), passed to the arena
    history,       \* VotingArena: the undo stack of pool snapshots
    currentPair,   \* VotingArena: << >> (null) or << index, index >>
    matchupQueue,  \* VotingArena: the lookahead queue
    voteResult,    \* VotingArena: << >> (null) or << the animation state >>
    timers,        \* the setTimeout callbacks of accepted votes, not yet run
    fetches,       \* poster fetches in flight, each with the movie it captured
    now,           \* Date.now(), counted in accepted votes
    mounted,       \* whether the arena's first effects have run
    justVoted,     \* << >> or << the pool a vote was cast on >>, from that
                   \*   vote's commit until the next vote or undo
    rmIn,          \* rating-model harness: the arguments of calculateNewRatings
    rmOut,         \* rating-model harness: << >> or the returned pair
    gpIn,          \* pair-generation harness: the pool passed to generatePair
    gpOut,         \* pair-generation harness: << >> or the returned pair
    simMovies,     \* SimulationView: currentMovies, its working copy
    simRound,      \* SimulationView: round
    lbIn,          \* leaderboard harness: the movies passed to Leaderboard
    lbOut,         \* leaderboard harness: << >> or << insights.longestStreak >>
    keys,          \* VotingArena: the Backspace keydown events handled
    dmIn,          \* MovieDetailModal: << >> or << the movie it is opened on >>
    dmOut,         \* MovieDetailModal: << >> or << its stats >>
    view,          \* App: the view shown, "UPLOAD" or "VOTE"
    tmdb           \* tmdbService: requestQueue, isProcessingQueue, the
                   \*   processQueue calls in progress and the requests' fate

arenaVars == << movies, history, currentPair, matchupQueue, voteResult, timers,
                fetches, now, mounted, justVoted >>
rmVars == << rmIn, rmOut >>
gpVars == << gpIn, gpOut >>
simVars == << simMovies, simRound >>
lbVars == << lbIn, lbOut >>
dmVars == << dmIn, dmOut >>
otherVars == << rmVars, gpVars, simVars, lbVars, keys, dmVars, view, tmdb >>
vars == << arenaVars, otherVars >>

ArenaIdle ==
    /\ movies = << >>
    /\ history = << >>
    /\ currentPair = << >>
    /\ matchupQueue = << >>
    /\ voteResult = << >>
    /\ timers = << >>
    /\ fetches = {}
    /\ now = 0
    /\ mounted = FALSE
    /\ justVoted = << >>

\* The harness variables at rest, for the specifications that do not use them.
RmIdle == rmIn = << >> /\ rmOut = << >>
GpIdle == gpIn = << >> /\ gpOut = << >>
SimIdle == simMovies = << >> /\ simRound = 0
LbIdle == lbIn = << >> /\ lbOut = << >>
KeysIdle == keys = 0
DmIdle == dmIn = << >> /\ dmOut = << >>
\* tmdbService as the module is loaded: no request yet.
TmdbIdle ==
    tmdb = [ requestQueue |-> << >>, isProcessingQueue |-> FALSE, loops |-> {},
             executing |-> {}, started |-> << >>, settled |-> << >> ]
\* The arena is shown: a pool has been loaded.
ViewIdle == view = "VOTE"
OthersIdle ==
    RmIdle /\ GpIdle /\ SimIdle /\ LbIdle /\ KeysIdle /\ DmIdle /\ ViewIdle /\ TmdbIdle

(***************************************************************************)
(* The rating model on its own: calculateNewRatings applied to drawn       *)
(* arguments.                                                              *)
(***************************************************************************)
EloSamples == {700, INITIAL_ELO, 1600}
MatchSamples == {0, 4, 5, 14, 15, 20}

InitElo ==
    /\ rmIn \in [ winnerElo : EloSamples,
                  gap : (0 - MaxGap)..MaxGap,
                  winnerMatches : MatchSamples,
                  loserMatches : MatchSamples ]
    /\ rmOut = << >>
    /\ GpIdle
    /\ SimIdle
    /\ LbIdle
    /\ KeysIdle
    /\ DmIdle
    /\ ViewIdle
    /\ TmdbIdle
    /\ ArenaIdle

Calculate ==
    /\ rmOut = << >>
    /\ rmOut' = calculateNewRatings(rmIn.winnerElo, rmIn.winnerMatches,
                                    rmIn.winnerElo - rmIn.gap, rmIn.loserMatches)
    /\ UNCHANGED << rmIn, gpVars, simVars, lbVars, keys, dmVars, view, tmdb, arenaVars >>

NextElo == Calculate

SpecElo == InitElo /\ [][NextElo]_vars

(***************************************************************************)
(* Pair generation on its own: generatePair applied to a drawn pool.       *)
(***************************************************************************)
PoolsOfLength(n) == [1..n -> [elo : EloSamples]]

InitPair ==
    /\ gpIn \in UNION { PoolsOfLength(n) : n \in 0..MaxPairPool }
    /\ gpOut = << >>
    /\ RmIdle
    /\ SimIdle
    /\ LbIdle
    /\ KeysIdle
    /\ DmIdle
    /\ ViewIdle
    /\ TmdbIdle
    /\ ArenaIdle

Generate ==
    /\ gpOut = << >>
    /\ gpOut' \in generatePair(gpIn)
    /\ UNCHANGED << gpIn, rmVars, simVars, lbVars, keys, dmVars, view, tmdb, arenaVars >>

NextPair == Generate

SpecPair == InitPair /\ [][NextPair]_vars

(***************************************************************************)
(* The arena: a loaded pool, judged pair by pair.                          *)
(***************************************************************************)
MovieIds == << "m1", "m2", "m3", "m4", "m5" >>

\* The star ratings of the loaded movies, in half stars (2, 3.5, 3, 4 and 5
\* stars).
HalfStars == << 4, 7, 6, 8, 10 >>

\* FileUpload: the initial rating under each Elo strategy.
initialElo(eloStrategy, halfStars) ==
    IF eloStrategy = "rating"
    THEN INITIAL_ELO + (halfStars - 6) * (200 \div 2)
    ELSE INITIAL_ELO

LoadedMovie(k, eloStrategy, posterless) ==
    [ id |-> MovieIds[k],
      posterPath |-> IF k <= posterless THEN "" ELSE "poster",
      elo |-> initialElo(eloStrategy, HalfStars[k]),
      matches |-> 0, wins |-> 0, losses |-> 0, history |-> << >> ]

LoadedPool(n, eloStrategy, posterless) ==
    [k \in 1..n |-> LoadedMovie(k, eloStrategy, posterless)]

\* The index sets the pre-loader can read from a queue: one pair per entry.
RECURSIVE QueueIndexSets(_)
QueueIndexSets(queue) ==
    IF queue = << >> THEN { {} }
    ELSE { {pair[1], pair[2]} \cup rest :
             pair \in PairValues(Head(queue)), rest \in QueueIndexSets(Tail(queue)) }

\* Effect "Background Image Pre-loading" (deps: matchupQueue, currentPair,
\* movies): start a fetch for every movie of the current pair and of the
\* queue that has no poster and no fetch in flight.
Preload(ms, pair, queueIndices, inFlight) ==
    LET indicesToLoad == (IF pair = << >> THEN {} ELSE {pair[1], pair[2]})
                           \cup queueIndices
        fetchingIds == { f.movie.id : f \in inFlight }
        toFetch == { idx \in indicesToLoad :
                       /\ idx < Len(ms)
                       /\ ms[idx + 1] # Hole
                       /\ ms[idx + 1].posterPath = ""
                       /\ ms[idx + 1].id \notin fetchingIds }
    IN  inFlight \cup { [ movie |-> ms[idx + 1] ] : idx \in toFetch }

InitArena(pools) ==
    /\ movies \in pools
    /\ history = << >>
    /\ currentPair = << >>
    /\ matchupQueue = << >>
    /\ voteResult = << >>
    /\ timers = << >>
    /\ fetches = {}
    /\ now = 0
    /\ mounted = FALSE
    /\ justVoted = << >>
    /\ OthersIdle

\* The first render's effects; allowed bounds the pair they leave.
Mount(allowed) ==
    /\ ~mounted
    /\ LET eff == EffectsPass(currentPair, matchupQueue, movies, TRUE)
           pairs == eff.pairs \cap allowed
           loads == QueueIndexSets(eff.queue)
       IN  /\ matchupQueue' = eff.queue
           /\ \E first \in pairs :
                /\ currentPair' = first
                /\ fetches' \in { Preload(movies, first, load, fetches) : load \in loads }
    /\ mounted' = TRUE
    /\ UNCHANGED << movies, history, voteResult, timers, now, justVoted,
                    otherVars >>

\* handleVote, from a click on a card or an arrow key: side 0 votes for
\* currentPair[0], side 1 for currentPair[1].
HandleVote(side) ==
    /\ mounted
    /\ currentPair # << >>
    /\ ~VoteBlocked(voteResult)
    /\ LET winnerIndex == currentPair[side + 1]
           loserIndex == currentPair[2 - side]
           winner == movies[winnerIndex + 1]
           loser == movies[loserIndex + 1]
           new == updateMovieStats(winner, loser, now + 1)
       IN  /\ history' = SaveHistory(history, movies)
           /\ voteResult' = << [ winnerId |-> winner.id,
                                 loserId |-> loser.id,
                                 winnerDiff |-> new.winner.elo - winner.elo,
                                 loserDiff |-> new.loser.elo - loser.elo ] >>
           /\ timers' = Append(timers,
                               [ winnerIndex |-> winnerIndex,
                                 loserIndex |-> loserIndex,
                                 newWinner |-> new.winner,
                                 newLoser |-> new.loser,
                                 matchupQueue |-> matchupQueue,
                                 movies |-> movies ])
    /\ now' = now + 1
    /\ justVoted' = << >>
    /\ UNCHANGED << movies, currentPair, matchupQueue, fetches, mounted,
                    otherVars >>

\* The setTimeout callback of an accepted vote; allowed bounds the pair it
\* shows next.  After advanceQueue a pair is set, so of the queue effects
\* only "Maintain Queue Depth" acts.
CommitVote(allowed) ==
    /\ timers # << >>
    /\ LET t == Head(timers)
           newMovies == ArraySet(ArraySet(movies, t.winnerIndex, t.newWinner),
                                 t.loserIndex, t.newLoser)
           adv == advanceQueue(t.matchupQueue, t.movies, matchupQueue)
           pairs == adv.pairs \cap allowed
           queue == MaintainQueue(adv.queue, newMovies)
           loads == QueueIndexSets(queue)
       IN  /\ movies' = newMovies
           /\ matchupQueue' = queue
           /\ \E next \in pairs :
                /\ currentPair' = next
                /\ fetches' \in { Preload(newMovies, next, load, fetches) : load \in loads }
           /\ justVoted' = << t.movies >>
    /\ voteResult' = << >>
    /\ timers' = Tail(timers)
    /\ UNCHANGED << history, now, mounted, otherVars >>

\* advanceQueue from the Skip button, Space or ArrowDown.  movies is
\* unchanged, so "Maintain Queue Depth" does not run.
Skip(allowed) ==
    /\ mounted
    /\ currentPair # << >>
    /\ ~ControlsDisabled(voteResult)
    /\ LET adv == advanceQueue(matchupQueue, movies, matchupQueue)
           pairs == adv.pairs \cap allowed
           loads == QueueIndexSets(adv.queue)
       IN  /\ matchupQueue' = adv.queue
           /\ \E next \in pairs :
                /\ currentPair' = next
                /\ fetches' \in { Preload(movies, next, load, fetches) : load \in loads }
    /\ voteResult' = << >>
    /\ UNCHANGED << movies, history, timers, now, mounted, justVoted,
                    otherVars >>

\* handleUndo; allowed bounds the pair it shows next.
RestorePrevious(allowed) ==
    /\ history # << >>
    /\ LET previousState == PreviousState(history)
           adv == advanceQueue(matchupQueue, movies, matchupQueue)
           pairs == adv.pairs \cap allowed
           queue == MaintainQueue(adv.queue, previousState)
           loads == QueueIndexSets(queue)
       IN  /\ movies' = previousState
           /\ matchupQueue' = queue
           /\ \E next \in pairs :
                /\ currentPair' = next
                /\ fetches' \in { Preload(previousState, next, load, fetches) : load \in loads }
    /\ history' = SliceDropLast(history)
    /\ voteResult' = << >>
    /\ justVoted' = << >>
    /\ UNCHANGED << timers, now, mounted >>

\* handleUndo, from the Undo button (rendered while the stack is not empty)
\* or Backspace.
HandleUndo(allowed) ==
    /\ mounted
    /\ currentPair # << >>
    /\ ~ControlsDisabled(voteResult)
    /\ RestorePrevious(allowed)
    /\ UNCHANGED otherVars

\* The keydown handler on Backspace, whatever the state: it returns without
\* a pair or during the animation, and calls handleUndo only when
\* history.length > 0.
UndoKeyAdvancesWhenEmpty(allowed) ==
    /\ mounted
    /\ keys' = keys + 1
    /\ IF currentPair # << >> /\ ~ControlsDisabled(voteResult)
       THEN IF Len(history) > 0
            THEN RestorePrevious(allowed)
            ELSE LET adv == advanceQueue(matchupQueue, movies, matchupQueue)
                 IN  /\ matchupQueue' = adv.queue
                     /\ currentPair' \in adv.pairs \cap allowed
                     /\ UNCHANGED << movies, history, voteResult, timers, fetches,
                                     now, mounted, justVoted >>
       ELSE UNCHANGED arenaVars
    /\ UNCHANGED << rmVars, gpVars, simVars, lbVars, dmVars, view, tmdb >>

UndoKey(allowed) ==
    /\ mounted
    /\ keys' = keys + 1
    /\ IF currentPair # << >> /\ ~ControlsDisabled(voteResult) /\ Len(history) > 0
       THEN RestorePrevious(allowed)
       ELSE UNCHANGED arenaVars
    /\ UNCHANGED << rmVars, gpVars, simVars, lbVars, dmVars, view, tmdb >>

\* A poster fetch settles with a path ("": none found).
FetchDone(f, path) ==
    /\ f \in fetches
    /\ LET settled == { g \in fetches : g.movie.id # f.movie.id }
       IN  IF path # ""
           THEN LET newMovies == MergePoster(movies, f.movie, path)
                    eff == EffectsPass(currentPair, matchupQueue, newMovies, TRUE)
                    loads == QueueIndexSets(eff.queue)
                IN  /\ movies' = newMovies
                    /\ matchupQueue' = eff.queue
                    /\ \E pair \in eff.pairs :
                         /\ currentPair' = pair
                         /\ fetches' \in { Preload(newMovies, pair, load, settled) : load \in loads }
           ELSE /\ fetches' = settled
                /\ UNCHANGED << movies, currentPair, matchupQueue >>
    /\ UNCHANGED << history, voteResult, timers, now, mounted, justVoted,
                    otherVars >>

IndexPairs == (0..(MaxPool - 1)) \X (0..(MaxPool - 1))
AnyPair == IndexPairs \cup {<< >>}
PosterPaths == {"", "poster"}

\* Pools of 1..MaxPool rated movies, loaded with the "rating" strategy.
Init == InitArena({ LoadedPool(n, "rating", MaxPosterless) : n \in 1..MaxPool })

Next ==
    \/ Mount(AnyPair)
    \/ \E side \in {0, 1} : now < MaxVotes /\ HandleVote(side)
    \/ CommitVote(AnyPair)
    \/ Skip(AnyPair)
    \/ HandleUndo(AnyPair)
    \/ \E f \in fetches, path \in PosterPaths : FetchDone(f, path)

Spec == Init /\ [][Next]_vars

\* The arena with its timers running, on two movies with their posters,
\* showing the two of them as a pair in either order: a setTimeout callback
\* that is pending is run by the event loop.
LivePairs == { << 0, 1 >>, << 1, 0 >> }

InitLive == InitArena({ LoadedPool(2, "rating", 0) })

NextLive ==
    \/ Mount(LivePairs)
    \/ \E side \in {0, 1} : now < MaxVotes /\ HandleVote(side)
    \/ CommitVote(LivePairs)
    \/ Skip(LivePairs)
    \/ HandleUndo(LivePairs)

SpecLive == InitLive /\ [][NextLive]_vars /\ WF_vars(CommitVote(LivePairs))

(***************************************************************************)
(* The undo stack over a long run: two movies with their posters, loaded   *)
(* with the "fixed" strategy; every pair drawn is (0, 1) and every vote is *)
(* for its first movie.                                                    *)
(***************************************************************************)
InitStack == InitArena({ LoadedPool(2, "fixed", 0) })

NextStack ==
    \/ Mount({<< 0, 1 >>})
    \/ now < StackVotes /\ HandleVote(0)
    \/ CommitVote({<< 0, 1 >>})
    \/ HandleUndo({<< 0, 1 >>})

SpecStack == InitStack /\ [][NextStack]_vars

(***************************************************************************)
(* Votes with a bystander: a pool of MaxPool + 1 movies, voted on and      *)
(* merged into, with no skip and no undo.                                  *)
(***************************************************************************)
BystanderPairs == (0..MaxPool) \X (0..MaxPool)

InitBystander == InitArena({ LoadedPool(MaxPool + 1, "rating", MaxPosterless) })

NextBystander ==
    \/ Mount(BystanderPairs)
    \/ \E side \in {0, 1} : now < MaxVotes /\ HandleVote(side)
    \/ CommitVote(BystanderPairs)
    \/ \E f \in fetches, path \in PosterPaths : FetchDone(f, path)

SpecBystander == InitBystander /\ [][NextBystander]_vars

(***************************************************************************)
(* A login while the arena is shown: syncCloudData replaces the pool with  *)
(* the pool stored for the user, when there is one.  The arena stays       *)
(* mounted and keeps its pair, queue, undo stack and timers.  The stored   *)
(* pools are as long as the local one: the arena's render reads            *)
(* movies[currentPair[i]].id, and throws on a shorter pool.                *)
(***************************************************************************)
CloudIds == << "c1", "c2", "c3", "c4" >>

\* JSON.parse(cloudDataJson): a pool saved from another list, or from this one.
CloudPools ==
    { [k \in 1..MaxPool |-> [LoadedMovie(k, "fixed", 0) EXCEPT !.id = CloudIds[k]]],
      LoadedPool(MaxPool, "fixed", 0) }

\* syncCloudData with cloud data: setMovies(cloudMovies), and the effects of
\* the arena's next render.
SyncCloudData(cloudMovies) ==
    /\ mounted
    /\ Len(cloudMovies) > 0
    /\ cloudMovies # movies
    /\ LET eff == EffectsPass(currentPair, matchupQueue, cloudMovies, TRUE)
           loads == QueueIndexSets(eff.queue)
       IN  /\ movies' = cloudMovies
           /\ matchupQueue' = eff.queue
           /\ \E pair \in eff.pairs :
                /\ currentPair' = pair
                /\ fetches' \in { Preload(cloudMovies, pair, load, fetches) : load \in loads }
    /\ UNCHANGED << history, voteResult, timers, now, mounted, justVoted,
                    otherVars >>

InitSync == InitArena({ LoadedPool(MaxPool, "rating", 0) })

NextSync ==
    \/ Mount(IndexPairs)
    \/ \E side \in {0, 1} : now < MaxVotes /\ HandleVote(side)
    \/ CommitVote(IndexPairs)
    \/ \E cloudMovies \in CloudPools : SyncCloudData(cloudMovies)

SpecSync == InitSync /\ [][NextSync]_vars

(***************************************************************************)
(* The arena with a keyboard: votes, and Backspace pressed at any time.    *)
(***************************************************************************)
InitKeys == InitArena({ LoadedPool(MaxPool, "rating", 0) })

NextKeys ==
    \/ Mount(IndexPairs)
    \/ \E side \in {0, 1} : now < MaxVotes /\ HandleVote(side)
    \/ CommitVote(IndexPairs)
    \/ keys < MaxKeys /\ UndoKey(IndexPairs)

SpecKeys == InitKeys /\ [][NextKeys]_vars

(***************************************************************************)
(* The statistics of played pools: a pool of 3 movies loaded with either   *)
(* strategy, on which the first matches of Fixtures have been voted, each  *)
(* with either winner; the insights are computed on it and the detail      *)
(* modal is opened on one of its movies.                                   *)
(***************************************************************************)
\* The pairs voted on, in order, as indices.
Fixtures ==
    << << 0, 1 >>, << 0, 1 >>, << 0, 1 >>, << 0, 1 >>, << 0, 1 >>, << 0, 1 >>,
       << 0, 2 >>, << 0, 2 >>, << 0, 2 >>, << 0, 2 >>, << 0, 2 >>, << 0, 2 >>,
       << 0, 2 >> >>

\* The pools after the matches k..last of Fixtures, voted on pool at the
\* times k..last.
RECURSIVE PlayFixtures(_, _, _)
PlayFixtures(pool, k, last) ==
    IF k > last THEN { pool }
    ELSE UNION {
           LET winnerIndex == Fixtures[k][IF firstWins THEN 1 ELSE 2]
               loserIndex == Fixtures[k][IF firstWins THEN 2 ELSE 1]
               new == updateMovieStats(pool[winnerIndex + 1], pool[loserIndex + 1], k)
           IN  PlayFixtures(ArraySet(ArraySet(pool, winnerIndex, new.winner),
                                     loserIndex, new.loser), k + 1, last)
           : firstWins \in BOOLEAN }

PlayedPools ==
    UNION { PlayFixtures(LoadedPool(3, eloStrategy, 0), 1, last) :
              eloStrategy \in {"fixed", "rating"}, last \in 0..MaxMatches }

InitStats ==
    /\ lbIn \in PlayedPools
    /\ lbOut = << >>
    /\ DmIdle
    /\ RmIdle
    /\ GpIdle
    /\ SimIdle
    /\ KeysIdle
    /\ ViewIdle
    /\ TmdbIdle
    /\ ArenaIdle

\* The Leaderboard's insights view.
ShowInsights ==
    /\ lbOut = << >>
    /\ lbOut' = << insights(lbIn) >>
    /\ UNCHANGED << lbIn, dmVars, rmVars, gpVars, simVars, keys, view, tmdb, arenaVars >>

\* A click on the k-th movie of the Leaderboard opens the modal on it.
OpenDetail(k) ==
    /\ dmIn = << >>
    /\ dmIn' = << lbIn[k] >>
    /\ dmOut' = << stats(lbIn[k]) >>
    /\ UNCHANGED << lbVars, rmVars, gpVars, simVars, keys, view, tmdb, arenaVars >>

NextStats ==
    \/ ShowInsights
    \/ \E k \in 1..Len(lbIn) : OpenDetail(k)

SpecStats == InitStats /\ [][NextStats]_vars

(***************************************************************************)
(* A reset while the arena is shown: handleReset empties the pool and      *)
(* shows the upload view, which unmounts the arena and discards its state. *)
(* The timers of accepted votes are not cleared.                           *)
(***************************************************************************)
\* handleReset, confirmed; its button is rendered while movies.length > 0.
HandleReset ==
    /\ Len(movies) > 0
    /\ movies' = << >>
    /\ view' = "UPLOAD"
    /\ history' = << >>
    /\ currentPair' = << >>
    /\ matchupQueue' = << >>
    /\ voteResult' = << >>
    /\ mounted' = FALSE
    /\ justVoted' = << >>
    /\ UNCHANGED << timers, fetches, now, rmVars, gpVars, simVars, lbVars, keys,
                    dmVars, tmdb >>

\* The setTimeout callback of an accepted vote once the arena is unmounted:
\* onUpdateMovies is App's setMovies and acts; advanceQueue sets the state of
\* an unmounted component, which does nothing.
CommitUnmounted ==
    /\ ~mounted
    /\ timers # << >>
    /\ LET t == Head(timers)
       IN  movies' = ArraySet(ArraySet(movies, t.winnerIndex, t.newWinner),
                              t.loserIndex, t.newLoser)
    /\ timers' = Tail(timers)
    /\ UNCHANGED << history, currentPair, matchupQueue, voteResult, fetches, now,
                    mounted, justVoted, otherVars >>

InitReset == InitArena({ LoadedPool(MaxPool, "rating", 0) })

NextReset ==
    \/ view = "VOTE" /\ Mount(IndexPairs)
    \/ \E side \in {0, 1} : now < MaxVotes /\ HandleVote(side)
    \/ mounted /\ CommitVote(IndexPairs)
    \/ CommitUnmounted
    \/ HandleReset

SpecReset == InitReset /\ [][NextReset]_vars

(***************************************************************************)
(* The request queue on its own: fetchMoviePoster called up to MaxRequests *)
(* times, at any moment; requests settle either way, timers expire.        *)
(***************************************************************************)
InitTmdb ==
    /\ TmdbIdle
    /\ RmIdle
    /\ GpIdle
    /\ SimIdle
    /\ LbIdle
    /\ KeysIdle
    /\ DmIdle
    /\ ViewIdle
    /\ ArenaIdle

TmdbOnly ==
    UNCHANGED << rmVars, gpVars, simVars, lbVars, keys, dmVars, view, arenaVars >>

\* fetchMoviePoster with a token: enqueueRequest.
EnqueueRequest ==
    /\ Len(tmdb.settled) < MaxRequests
    /\ tmdb' = enqueueRequest(tmdb)
    /\ TmdbOnly

\* The request a loop awaits settles: fulfilled (ok) or rejected.
TaskSettles(loop, ok) ==
    /\ loop \in tmdb.loops
    /\ loop.pc = "task"
    /\ tmdb' = taskSettles(tmdb, loop, ok)
    /\ TmdbOnly

\* The 300 ms timer a loop awaits expires: the loop tests its condition.
DelayOver(loop) ==
    /\ loop \in tmdb.loops
    /\ loop.pc = "delay"
    /\ tmdb' = RunLoop([tmdb EXCEPT !.loops = @ \ { loop }])
    /\ TmdbOnly

SomeTaskSettles == \E loop \in tmdb.loops, ok \in BOOLEAN : TaskSettles(loop, ok)

SomeDelayOver == \E loop \in tmdb.loops : DelayOver(loop)

NextTmdb ==
    \/ EnqueueRequest
    \/ SomeTaskSettles
    \/ SomeDelayOver

SpecTmdb == InitTmdb /\ [][NextTmdb]_vars

\* Every request made is answered or fails, and every timer expires.
SpecTmdbLive == SpecTmdb /\ WF_vars(SomeTaskSettles) /\ WF_vars(SomeDelayOver)

(***************************************************************************)
(* The simulation: SimulationView opened on the live pool.  Its working    *)
(* copy starts as the live pool's own array (useState(initialMovies)), so  *)
(* the first round is passed that array.                                   *)
(***************************************************************************)
\* A pool of 3 on which one vote has been committed.
VotedPool ==
    LET pool == LoadedPool(3, "fixed", 0)
        new == updateMovieStats(pool[1], pool[2], 1)
    IN  ArraySet(ArraySet(pool, 0, new.winner), 1, new.loser)

SimPools ==
    { LoadedPool(n, eloStrategy, 0) :
        n \in 1..MaxSimPool, eloStrategy \in {"fixed", "rating"} } \cup { VotedPool }

InitSim ==
    /\ movies \in SimPools
    /\ simMovies = movies
    /\ simRound = 0
    /\ history = << >>
    /\ currentPair = << >>
    /\ matchupQueue = << >>
    /\ voteResult = << >>
    /\ timers = << >>
    /\ fetches = {}
    /\ now = 0
    /\ mounted = FALSE
    /\ justVoted = << >>
    /\ RmIdle
    /\ GpIdle
    /\ LbIdle
    /\ KeysIdle
    /\ DmIdle
    /\ ViewIdle
    /\ TmdbIdle

\* SimulationView.step: one round on the working copy.
Step ==
    /\ simRound < MaxRounds
    /\ \E out \in runSimulationRound(simMovies) :
         /\ simMovies' = out.result
         /\ movies' = IF simRound = 0 THEN out.argument ELSE movies
    /\ simRound' = simRound + 1
    /\ UNCHANGED << history, currentPair, matchupQueue, voteResult, timers,
                    fetches, now, mounted, justVoted, rmVars, gpVars, lbVars,
                    keys, dmVars, view, tmdb >>

NextSim == Step

SpecSim == InitSim /\ [][NextSim]_vars

(***************************************************************************)
(* The insights on their own: the longest streak of drawn movies.  A       *)
(* history's timestamps are its positions: records are appended with       *)
(* Date.now().                                                             *)
(***************************************************************************)
Ledgers ==
    UNION { [1..n -> {"WIN", "LOSS"}] : n \in 0..MaxLedger }

BoardMovie(k, outcomes) ==
    [ id |-> MovieIds[k],
      history |-> [i \in 1..Len(outcomes) |->
                      [ timestamp |-> i, result |-> outcomes[i] ]] ]

InitBoard ==
    /\ \E n \in 1..MaxBoard : \E ledgers \in [1..n -> Ledgers] :
          lbIn = [k \in 1..n |-> BoardMovie(k, ledgers[k])]
    /\ lbOut = << >>
    /\ RmIdle
    /\ GpIdle
    /\ SimIdle
    /\ KeysIdle
    /\ DmIdle
    /\ ViewIdle
    /\ TmdbIdle
    /\ ArenaIdle

\* The insights memo computes longestStreak.
ComputeInsights ==
    /\ lbOut = << >>
    /\ lbOut' = << insightsLongestStreak(lbIn) >>
    /\ UNCHANGED << lbIn, rmVars, gpVars, simVars, keys, dmVars, view, tmdb, arenaVars >>

NextBoard == ComputeInsights

SpecBoard == InitBoard /\ [][NextBoard]_vars

(***************************************************************************)
(* The rating model's claims (SpecElo).                                    *)
(***************************************************************************)
Calculated == rmOut # << >>
RmLoserElo == rmIn.winnerElo - rmIn.gap
WinnerDelta == rmOut[1] - rmIn.winnerElo
LoserDelta == rmOut[2] - RmLoserElo

\* The K-factor tiers as the specification words them.
TierK(matches) ==
    CASE matches \in 0..4 -> 80
      [] matches \in 5..14 -> 40
      [] OTHER -> 20

\* The largest winnerElo - loserElo at which a side with K-factor K still
\* moves by a non-zero rounded amount.
LastMovingGap(K) ==
    CASE K = 80 -> 880
      [] K = 40 -> 759
      [] K = 20 -> 636

\* C8 as claimed: every update strictly raises the winner's rating and
\* strictly lowers the loser's rating.
C8_StrictlyMoves ==
    Calculated => (rmOut[1] > rmIn.winnerElo /\ rmOut[2] < RmLoserElo)

\* C8 as amended: the winner's rating never falls and the loser's never
\* rises; the winner's rounded delta is non-zero exactly when
\* winnerElo - loserElo is at most 880, 759 or 636 for a winner K-factor of
\* 80, 40 or 20, and the loser's likewise with the loser's own K-factor.
C8_MovesUnlessGapTooLarge ==
    Calculated =>
        /\ rmOut[1] >= rmIn.winnerElo
        /\ rmOut[2] <= RmLoserElo
        /\ (rmOut[1] > rmIn.winnerElo
              <=> rmIn.gap <= LastMovingGap(TierK(rmIn.winnerMatches)))
        /\ (rmOut[2] < RmLoserElo
              <=> rmIn.gap <= LastMovingGap(TierK(rmIn.loserMatches)))

\* C8's case: an established winner rated 637 above the loser gains nothing.
C8_Witness ==
    /\ Calculated
    /\ rmIn.gap = 637
    /\ rmIn.winnerMatches = 20
    /\ rmOut[1] = rmIn.winnerElo

C10_EqualRatings ==
    (Calculated /\ rmIn.gap = 0) =>
        /\ 2 * rmOut[1] = 2 * rmIn.winnerElo + TierK(rmIn.winnerMatches)
        /\ 2 * rmOut[2] = 2 * rmIn.winnerElo - TierK(rmIn.loserMatches)
        /\ (rmIn.winnerElo = 1200 /\ rmIn.winnerMatches = 0 /\ rmIn.loserMatches = 0)
             => rmOut = << 1240, 1160 >>

\* C10's case: the worked example has been computed.
C10_Witness ==
    /\ rmIn.winnerElo = 1200
    /\ rmIn.gap = 0
    /\ rmIn.winnerMatches = 0
    /\ rmIn.loserMatches = 0
    /\ rmOut = << 1240, 1160 >>

(***************************************************************************)
(* The arena's claims (Spec).                                              *)
(***************************************************************************)
\* A pool without its posters: what a vote or an undo may change.
WithoutPosters(ms) == [k \in 1..Len(ms) |-> [ms[k] EXCEPT !.posterPath = ""]]

\* C1: in the live pool every movie's matches equals its wins plus its
\* losses and equals the length of its history, after any votes, skips,
\* undos and poster merges.
C1_CountsMatchLedger ==
    \A k \in 1..Len(movies) :
        /\ movies[k].matches = movies[k].wins + movies[k].losses
        /\ movies[k].matches = Len(movies[k].history)

\* Two votes were accepted, one was undone and the other committed, and the
\* first movie, which took part in it, has had its poster merged.
C1_Witness ==
    /\ now = 2
    /\ timers = << >>
    /\ Len(history) = 1
    /\ movies[1].matches = 1
    /\ movies[1].posterPath = "poster"

\* A step of handleUndo: the only one that shortens the undo stack.
UndoStep == Len(history') < Len(history)

\* C2: an undo that follows a vote's commit with no vote or undo in between
\* leaves every movie's elo, matches, wins, losses and history as they were
\* when the vote was cast; only posterPath may differ.
C2_UndoRestoresPreVote ==
    [][ (justVoted # << >> /\ UndoStep)
           => WithoutPosters(movies') = WithoutPosters(justVoted[1]) ]_vars

\* Both votes were accepted and committed, and the second was then undone.
C2_Witness ==
    /\ now = 2
    /\ timers = << >>
    /\ Len(history) = 1
    /\ justVoted = << >>
    /\ \E k \in 1..Len(movies) : movies[k].matches = 1

\* The setTimeout callback of the pending vote runs.
CommitStep == timers # << >> /\ timers' = Tail(timers) /\ voteResult' = << >>

\* C4: at most one vote commit is pending, voteResult is set exactly while
\* it is; and until it runs no step changes the undo stack, the current
\* pair, the pending commit or any movie's elo, matches, wins, losses or
\* history.
C4_Serialized ==
    /\ [](Len(timers) <= 1 /\ (voteResult # << >> <=> timers # << >>))
    /\ [][ voteResult # << >>
             => \/ CommitStep
                \/ /\ history' = history
                   /\ currentPair' = currentPair
                   /\ timers' = timers
                   /\ voteResult' = voteResult
                   /\ WithoutPosters(movies') = WithoutPosters(movies) ]_vars

\* A second vote is pending while the undo stack holds the first vote's
\* snapshot too: votes, undo and skip could all be requested.
C4_Witness ==
    /\ voteResult # << >>
    /\ Len(timers) = 1
    /\ Len(history) = 2

\* A step that changes the pool and is neither a vote's commit nor an undo:
\* the merge of a completed poster fetch.
MergeStep == movies' # movies /\ timers' = timers /\ history' = history

\* C5: the merge of a completed poster fetch sets the posterPath of the
\* movie that has the fetched id in the pool as it is then, and changes
\* nothing else: no movie's elo, matches, wins, losses or history, so no
\* vote committed while the fetch was in flight is lost.
C5_MergeOnlySetsPoster ==
    [][ MergeStep
          => \E f \in fetches : \E k \in 1..Len(movies) :
                /\ movies[k].id = f.movie.id
                /\ movies'[k].posterPath # ""
                /\ movies' = [movies EXCEPT ![k].posterPath = movies'[k].posterPath] ]_vars

\* The first movie was voted on while it had no poster (the snapshot shows
\* it), and now carries both that vote and the poster merged after it.
C5_Witness ==
    /\ timers = << >>
    /\ history # << >>
    /\ history[Len(history)][1].posterPath = ""
    /\ movies[1].posterPath = "poster"
    /\ movies[1].matches = Len(history)
    /\ movies[1].matches >= 1

(***************************************************************************)
(* The undo stack's claim (SpecStack).                                     *)
(***************************************************************************)
\* C3: the undo stack never holds more than 10 snapshots.
C3_StackAtMostTen == Len(history) <= UndoDepth

(***************************************************************************)
(* Pair generation's claims (SpecPair).                                    *)
(***************************************************************************)
\* C7: pair generation on a pool of fewer than 2 movies returns no index
\* pair.
C7_NoPairFromSmallPool == Len(gpIn) < 2 => gpOut = << >>

\* C6: for a pool of 2 or more, every pair generatePair returns has two
\* different indices, whatever the draws; for a pool of exactly 2 it is
\* (0,1) or (1,0).
C6_DistinctIndices ==
    (gpOut # << >> /\ Len(gpIn) >= 2) =>
        /\ gpOut[1] # gpOut[2]
        /\ Len(gpIn) = 2 => gpOut \in { << 0, 1 >>, << 1, 0 >> }

(***************************************************************************)
(* The ledger's claims (Spec).                                             *)
(***************************************************************************)
\* The rating the k-th movie of the pool was loaded with.
LoadedElo(k) == initialElo("rating", HalfStars[k])

\* C11: for every movie and every record of its history, newElo - eloChange
\* is the movie's rating just before that match (the loaded rating for the
\* first record, the previous record's newElo otherwise), and the last
\* record's newElo is the movie's elo.
C11_LedgerReplays ==
    \A k \in 1..Len(movies) :
        LET ledger == movies[k].history
        IN  /\ \A i \in 1..Len(ledger) :
                  ledger[i].newElo - ledger[i].eloChange =
                      IF i = 1 THEN LoadedElo(k) ELSE ledger[i - 1].newElo
            /\ ledger # << >> => ledger[Len(ledger)].newElo = movies[k].elo

\* The second movie has lost twice, and both of its records moved its elo.
C11_Witness ==
    /\ Len(movies) = 2
    /\ timers = << >>
    /\ Len(movies[2].history) = 2
    /\ movies[2].history[1].result = "LOSS"
    /\ movies[2].history[2].result = "LOSS"
    /\ movies[2].history[1].eloChange < 0
    /\ movies[2].history[2].eloChange < 0

\* A step of handleVote that accepts the vote.
VoteStep == now' = now + 1

\* C12: an accepted vote appends exactly one record to the winner and one
\* to the loser, with the same timestamp: the winner's has result WIN, the
\* loser's rating before the match as opponentElo and eloChange >= 0; the
\* loser's has result LOSS, the winner's rating before the match as
\* opponentElo and eloChange <= 0.
C12_ReciprocalRecords ==
    [][ VoteStep =>
          LET t == timers'[Len(timers')]
              winner == movies[t.winnerIndex + 1]
              loser == movies[t.loserIndex + 1]
              winnerRecord == t.newWinner.history[Len(t.newWinner.history)]
              loserRecord == t.newLoser.history[Len(t.newLoser.history)]
          IN  /\ t.newWinner.history = Append(winner.history, winnerRecord)
              /\ t.newLoser.history = Append(loser.history, loserRecord)
              /\ winnerRecord.timestamp = loserRecord.timestamp
              /\ winnerRecord.result = "WIN"
              /\ winnerRecord.opponentElo = loser.elo
              /\ winnerRecord.eloChange >= 0
              /\ loserRecord.result = "LOSS"
              /\ loserRecord.opponentElo = winner.elo
              /\ loserRecord.eloChange <= 0 ]_vars

\* The second vote is pending: its winner, rated below the loser before the
\* match, gained from it, and already held the record of the first vote.
C12_Witness ==
    /\ Len(timers) = 1
    /\ now = 2
    /\ timers[1].winnerIndex # timers[1].loserIndex
    /\ Len(timers[1].newWinner.history) = 2
    /\ timers[1].newWinner.history[2].eloChange > 0
    /\ timers[1].newWinner.history[2].opponentElo > movies[timers[1].winnerIndex + 1].elo

(***************************************************************************)
(* The pool's and the queue's claims (Spec).                               *)
(***************************************************************************)
Ids(ms) == [k \in 1..Len(ms) |-> ms[k].id]

\* C17: no step changes the pool's identifiers, their number or their
\* order: votes, skips, undos and poster merges add, remove and duplicate
\* no movie.
C17_SameParticipants ==
    /\ [](\A j, k \in 1..Len(movies) : movies[j].id = movies[k].id => j = k)
    /\ [][ Ids(movies') = Ids(movies) ]_vars

\* Two movies; both votes were accepted, the second was undone, and the
\* first movie's poster was merged after the undo.
C17_Witness ==
    /\ Len(movies) = 2
    /\ now = 2
    /\ Len(history) = 1
    /\ justVoted = << >>
    /\ movies[1].posterPath = "poster"
    /\ movies[1].matches + movies[2].matches >= 1

\* C18: the lookahead queue never holds more than QUEUE_SIZE pairs, and a
\* mounted arena on a pool of at least 2 movies holds QUEUE_SIZE pairs
\* whenever a request can be made, after skips too.
C18_QueueKeptFull ==
    /\ Len(matchupQueue) <= QUEUE_SIZE
    /\ (mounted /\ Len(movies) >= 2) => Len(matchupQueue) = QUEUE_SIZE

\* after is before with one vote applied to it, posters aside.
VoteApplied(before, after) ==
    \E w, l \in 0..(Len(before) - 1) : \E timestamp \in 1..now :
        LET new == updateMovieStats(before[w + 1], before[l + 1], timestamp)
        IN  WithoutPosters(after) =
                WithoutPosters(ArraySet(ArraySet(before, w, new.winner), l, new.loser))

\* C19: an accepted vote pushes the pool as it is before the vote's update,
\* and undo pops in reverse order of voting.  The stack, followed by the
\* pool, is the sequence of pools before each vote not undone, every one a
\* single vote later than the one before it (the pool equals the top while
\* that vote's commit is pending); an undo restores the top and removes it
\* alone.  So k undos after n votes leave elo, matches, wins, losses and
\* history as they were before the (n - k + 1)-th vote.
C19_UndoInReverseOrder ==
    /\ [](/\ \A i \in 1..(Len(history) - 1) : VoteApplied(history[i], history[i + 1])
          /\ history # << >> =>
                IF timers # << >>
                THEN WithoutPosters(movies) = WithoutPosters(history[Len(history)])
                ELSE VoteApplied(history[Len(history)], movies))
    /\ [][ /\ VoteStep => history'[Len(history')] = movies
           /\ UndoStep => /\ WithoutPosters(movies') = WithoutPosters(history[Len(history)])
                          /\ history' = SubSeq(history, 1, Len(history) - 1) ]_vars

\* Two votes were accepted and both are undone: the stack is empty and no
\* movie has a match or a record left.
C19_Witness ==
    /\ Len(movies) = 2
    /\ now = 2
    /\ history = << >>
    /\ timers = << >>
    /\ \A k \in 1..2 : movies[k].matches = 0 /\ movies[k].history = << >>

(***************************************************************************)
(* The vote's frame (SpecBystander).                                       *)
(***************************************************************************)
\* C20: the commit of an accepted vote leaves every movie other than the
\* winner and the loser unchanged, and keeps the winner's and the loser's
\* existing records, in their order, with one new record after them.
C20_VoteFrame ==
    [][ CommitStep =>
          LET t == Head(timers)
          IN  \A k \in 1..Len(movies) :
                IF k - 1 \in {t.winnerIndex, t.loserIndex}
                THEN LET old == movies[k].history
                         new == movies'[k].history
                     IN  /\ Len(new) = Len(old) + 1
                         /\ SubSeq(new, 1, Len(old)) = old
                ELSE movies'[k] = movies[k] ]_vars

\* Both votes are committed: the first movie took part in both, the third
\* in neither.
C20_Witness ==
    /\ Len(movies) = 3
    /\ timers = << >>
    /\ now = 2
    /\ Len(movies[1].history) = 2
    /\ movies[3].matches = 0
    /\ movies[2].matches = 2

(***************************************************************************)
(* The simulation's claims (SpecSim).                                      *)
(***************************************************************************)
\* C15: a simulation round appends no record to any movie's history in its
\* working copy, and leaves the live pool, the array passed to the first
\* round, as it was.
C15_SimulationKeepsLedger ==
    [][ simRound' = simRound + 1 =>
          /\ movies' = movies
          /\ Len(simMovies') = Len(simMovies)
          /\ \A j, k \in 1..Len(simMovies) :
                simMovies'[j].id = simMovies[k].id =>
                    simMovies'[j].history = simMovies[k].history ]_vars

\* Two rounds have run on the pool with a committed vote: the working copy
\* is in another order than the live pool, and its first movie has played
\* more matches than it has records, and has a record.
C15_Witness ==
    /\ simRound >= 2
    /\ Ids(simMovies) # Ids(movies)
    /\ simMovies[1].matches > Len(simMovies[1].history)
    /\ Len(simMovies[1].history) = 1

\* The movie of the working copy after the step with the id of its k-th
\* movie before the step.
AfterRound(k) ==
    simMovies'[CHOOSE j \in 1..Len(simMovies') : simMovies'[j].id = simMovies[k].id]

PlayedOnce(k) ==
    /\ AfterRound(k).matches = simMovies[k].matches + 1
    /\ \/ /\ AfterRound(k).wins = simMovies[k].wins + 1
          /\ AfterRound(k).losses = simMovies[k].losses
       \/ /\ AfterRound(k).wins = simMovies[k].wins
          /\ AfterRound(k).losses = simMovies[k].losses + 1

\* C21: in one simulation round over n movies every movie plays at most one
\* match and floor(n / 2) matches are played: every movie's matches grows by
\* exactly 1, except one movie whose counts are unchanged when n is odd.
C21_EachPlaysOnce ==
    [][ simRound' = simRound + 1 =>
          LET n == Len(simMovies)
              played == { k \in 1..n : PlayedOnce(k) }
              rested == { k \in 1..n : AfterRound(k) = simMovies[k] }
              won == { k \in played : AfterRound(k).wins = simMovies[k].wins + 1 }
          IN  /\ Len(simMovies') = n
              /\ played \cup rested = 1..n
              /\ Cardinality(rested) = n % 2
              /\ Cardinality(won) = n \div 2 ]_vars

\* Two rounds have run on 3 movies: m1, the lowest rated, has rested in both,
\* and the other two have played both.
C21_Witness ==
    /\ simRound = 2
    /\ Len(simMovies) = 3
    /\ \A k \in 1..3 :
          simMovies[k].matches = IF simMovies[k].id = "m1" THEN 0 ELSE 2

\* C30: after any number of simulation rounds on a pool with unique
\* identifiers the working copy holds the identifiers of the input pool, each
\* once, and every movie has matches = wins + losses.
C30_SamePoolAndCounts ==
    /\ Len(simMovies) = Len(movies)
    /\ { simMovies[k].id : k \in 1..Len(simMovies) }
         = { movies[k].id : k \in 1..Len(movies) }
    /\ \A j, k \in 1..Len(simMovies) : simMovies[j].id = simMovies[k].id => j = k
    /\ \A k \in 1..Len(simMovies) :
          simMovies[k].matches = simMovies[k].wins + simMovies[k].losses

\* All the rounds have run on 3 movies, in another order than the input's,
\* and a movie has both won and lost.
C30_Witness ==
    /\ simRound = MaxRounds
    /\ Len(simMovies) = 3
    /\ Ids(simMovies) # Ids(movies)
    /\ \E k \in 1..3 : simMovies[k].wins > 0 /\ simMovies[k].losses > 0

(***************************************************************************)
(* The insights' claims (SpecBoard).                                       *)
(***************************************************************************)
\* The outcomes of a history in chronological order.
Outcomes(h) == [i \in 1..Len(h) |-> SortByTimestamp(h)[i].result]

\* The lengths of the runs of consecutive WIN in a sequence of outcomes.
WinRuns(outcomes) ==
    { len \in 1..Len(outcomes) :
        \E first \in 1..(Len(outcomes) - len + 1) :
           \A i \in first..(first + len - 1) : outcomes[i] = "WIN" }

Largest(S) == IF S = {} THEN 0 ELSE CHOOSE x \in S : \A y \in S : y <= x

\* C16: the longest-streak insight reports the maximum, over all movies, of
\* the length of the longest run of consecutive WIN records in the movie's
\* history in chronological order; [WIN, WIN, WIN, LOSS, WIN] gives 3.
C16_LongestStreak ==
    lbOut # << >> =>
        /\ lbOut[1].streak =
              Largest(UNION { WinRuns(Outcomes(lbIn[k].history)) : k \in 1..Len(lbIn) })
        /\ (Len(lbIn) = 1
            /\ Outcomes(lbIn[1].history) = << "WIN", "WIN", "WIN", "LOSS", "WIN" >>)
              => lbOut[1].streak = 3

\* The insight is computed for two movies, the second with the outcomes
\* [WIN, WIN, WIN, LOSS, WIN] and the first with a shorter streak.
C16_Witness ==
    /\ lbOut # << >>
    /\ Len(lbIn) = 2
    /\ Outcomes(lbIn[2].history) = << "WIN", "WIN", "WIN", "LOSS", "WIN" >>
    /\ Outcomes(lbIn[1].history) = << "WIN", "LOSS", "WIN", "WIN" >>
    /\ lbOut[1] = [ movie |-> << "m2" >>, streak |-> 3 ]

(***************************************************************************)
(* The claims about a replaced pool (SpecSync).                            *)
(***************************************************************************)
PresentIds == { movies[k].id : k \in 1..Len(movies) }

\* The oldest accepted vote not yet applied names a movie that is not in the
\* pool.
StaleVote ==
    /\ timers # << >>
    /\ \/ Head(timers).newWinner.id \notin PresentIds
       \/ Head(timers).newLoser.id \notin PresentIds

\* C13: a vote whose pair refers to a movie that is not in the current pool
\* (the pool was replaced by a cloud sync while the pair was displayed) is
\* rejected: applying it leaves the pool and the undo stack unchanged.
C13_StaleVoteRejected ==
    [][(StaleVote /\ timers' = Tail(timers))
          => movies' = movies /\ history' = history]_vars

(***************************************************************************)
(* The claims about the keyboard (SpecKeys).                               *)
(***************************************************************************)
\* C14: undo requested while the undo stack is empty is a no-op: the pool,
\* the undo stack, the current pair and the lookahead queue are unchanged
\* (and the handler returns: the arena goes on as before).
C14_EmptyUndoIsNoOp ==
    [][(keys' = keys + 1 /\ history = << >>)
          => /\ movies' = movies
             /\ history' = history
             /\ currentPair' = currentPair
             /\ matchupQueue' = matchupQueue
             /\ voteResult' = voteResult
             /\ timers' = timers]_vars

\* Backspace has been pressed on a shown pair before any vote: the stack was
\* empty at every press.
C14_Witness ==
    /\ keys = MaxKeys
    /\ now = 0
    /\ history = << >>
    /\ currentPair # << >>
    /\ Len(matchupQueue) = QUEUE_SIZE

(***************************************************************************)
(* The statistics' claims (SpecStats).                                     *)
(***************************************************************************)
\* The ratings a movie has had: the rating it was loaded with, then each
\* record's newElo in chronological order.
Trajectory(movie) ==
    LET h == SortByTimestamp(movie.history)
    IN  IF Len(h) = 0 THEN << movie.elo >>
        ELSE << h[1].newElo - h[1].eloChange >> \o [i \in 1..Len(h) |-> h[i].newElo]

\* C22: for every movie, whatever its initial rating (1200 or derived from
\* its stars), the reported peak and lowest rating are the maximum and the
\* minimum of the initial rating followed by each record's newElo.
C22_PeakAndLowest ==
    dmOut # << >> =>
        LET ratings == Trajectory(dmIn[1])
        IN  /\ \E i \in 1..Len(ratings) : dmOut[1].peakElo = ratings[i]
            /\ \E i \in 1..Len(ratings) : dmOut[1].lowestElo = ratings[i]
            /\ \A i \in 1..Len(ratings) :
                  dmOut[1].lowestElo <= ratings[i] /\ ratings[i] <= dmOut[1].peakElo

Gap(ms, k, i) ==
    ms[k].history[i].opponentElo
      - (ms[k].history[i].newElo - ms[k].history[i].eloChange)

\* The upsets of a pool, as << movie, record >>: the WIN records over an
\* opponent rated higher before the match.
UpsetsOf(ms) ==
    UNION { { << k, i >> : i \in { j \in 1..Len(ms[k].history) :
                                    /\ ms[k].history[j].result = "WIN"
                                    /\ Gap(ms, k, j) > 0 } }
            : k \in 1..Len(ms) }

C24_MostVolatile ==
    lbOut # << >> =>
        LET named == lbOut[1].mostPolarizing.movie
            eligible == { k \in 1..Len(lbIn) : lbIn[k].matches > 5 }
        IN  named # << >> =>
               \E k \in eligible :
                  /\ lbIn[k].id = named[1]
                  /\ \A j \in eligible :
                        stats(lbIn[j]).volatilityScore <= stats(lbIn[k]).volatilityScore

(***************************************************************************)
(* The claims about a reset (SpecReset).                                   *)
(***************************************************************************)
\* C26: once a reset has emptied the pool, the pool stays empty until new
\* data is loaded: a vote whose animation delay was pending at the reset
\* does not write its winner and loser back when the delay expires.
C26_ResetPoolStaysEmpty ==
    [][(view = "UPLOAD" /\ movies = << >>) => movies' = << >>]_vars

(***************************************************************************)
(* The claims about the arena with its timers running (SpecLive).          *)
(***************************************************************************)
\* The step that runs the callback of the oldest accepted vote.
TimerFires == timers # << >> /\ timers' = Tail(timers)

\* C27: every accepted vote is committed exactly once: after its delay the
\* winner's and the loser's matches have each grown by exactly 1, the
\* animation state is cleared and a new current pair is set, so that voting
\* is eventually possible again.
C27_VoteCommittedOnce ==
    /\ [](Len(timers) <= 1 /\ (voteResult # << >> <=> timers # << >>))
    /\ [][VoteStep => timers' = Append(timers, timers'[Len(timers')])]_vars
    /\ [][TimerFires =>
            LET t == Head(timers)
            IN  /\ movies'[t.winnerIndex + 1].id = movies[t.winnerIndex + 1].id
                /\ movies'[t.loserIndex + 1].id = movies[t.loserIndex + 1].id
                /\ movies'[t.winnerIndex + 1].matches
                     = movies[t.winnerIndex + 1].matches + 1
                /\ movies'[t.loserIndex + 1].matches
                     = movies[t.loserIndex + 1].matches + 1
                /\ voteResult' = << >>
                /\ currentPair' # << >>]_vars
    /\ (voteResult # << >>) ~> (voteResult = << >> /\ currentPair # << >>)

\* Two votes have been accepted and committed on two movies: both have
\* played two matches, no animation is running and a pair is shown.
C27_Witness ==
    /\ now = 2
    /\ timers = << >>
    /\ voteResult = << >>
    /\ currentPair # << >>
    /\ Len(movies) = 2
    /\ movies[1].matches = 2
    /\ movies[2].matches = 2

(***************************************************************************)
(* The request queue's claims (SpecTmdb, SpecTmdbLive).                    *)
(***************************************************************************)
\* C28: in the TMDB request queue at most one request is executing at any
\* time, whatever the interleaving of fetchMoviePoster calls, and requests
\* start executing in the order in which they were enqueued.
C28_OneAtATimeInOrder ==
    /\ Cardinality(tmdb.executing) <= 1
    /\ tmdb.started = [i \in 1..Len(tmdb.started) |-> i]

\* The first request is executing while the others, enqueued after it
\* started, wait in the queue.
C28_Witness ==
    /\ tmdb.executing = { 1 }
    /\ Len(tmdb.requestQueue) = MaxRequests - 1
    /\ tmdb.started = << 1 >>

\* C29: every request enqueued is eventually executed and its promise
\* settles, also when it is enqueued while the queue is being drained or
\* after an earlier request failed; whenever isProcessingQueue is false the
\* queue is empty.
C29_EveryRequestSettles ==
    /\ [](~tmdb.isProcessingQueue => tmdb.requestQueue = << >>)
    /\ \A id \in 1..MaxRequests :
          (Len(tmdb.settled) >= id) ~> ((\E i \in 1..Len(tmdb.started) :
                                            tmdb.started[i] = id)
                                         /\ tmdb.settled[id] # "pending")

\* The first request has failed, the second has been executed after it and
\* has resolved, and the processor is idle.
C29_Witness ==
    /\ Len(tmdb.settled) = 2
    /\ tmdb.settled = << "rejected", "resolved" >>
    /\ tmdb.started = << 1, 2 >>
    /\ ~tmdb.isProcessingQueue

====
